---- MODULE Spec2Model ----
(***************************************************************************)
(* Model of the tick-by-tick backtest engine, src/backtest/engine.py:      *)
(* BacktestEngine.run, BacktestEngine._merge_ticks and the BacktestResult  *)
(* statistics.                                                             *)
(*                                                                         *)
(* Numbers.  Prices and the take-profit / stop-loss deltas are integers in *)
(* units of one price step.  Python                                        *)
(* computes size / entry_price and (exit - entry) * shares in floating     *)
(* point; the model computes the same expressions exactly, carrying money  *)
(* and share quantities multiplied by Scale, a common multiple of every    *)
(* price, so that every division is exact.                                 *)
(*                                                                         *)
(* Input.  run() iterates self.markets; the model draws each market when   *)
(* the for-loop reaches it (StartMarket) and lets the loop end after any   *)
(* number of markets (EndLoop).  The code never looks ahead in the list,   *)
(* except for markets[0]["start_ts"], which is the same for every market   *)
(* list of the model.  The locals of one loop iteration that no later code *)
(* reads (market, ticks) are dropped at the market's end; open_position    *)
(* and tracker, which the next iteration must replace, are kept.           *)
(* Spec runs on markets that have every field; SpecMalformed runs on       *)
(* markets of which a field may be missing, where a dict access raises     *)
(* KeyError; SpecMerge and SpecStats call _merge_ticks and the statistics  *)
(* properties on their own, on any lists.                                  *)
(*                                                                         *)
(* Signal Source.  lib.price_tracker.PriceTracker is not part of the       *)
(* engine: detect_flash_crash() may answer anything (no event, or an event *)
(* on either side), and the tracker's state is the number of observations  *)
(* it has received on each side.                                           *)
(***************************************************************************)
EXTENDS Integers, Sequences, FiniteSets, TLC

VARIABLES
    config,          \* self.config (take_profit, stop_loss, size, starting_equity)
    input_family,    \* the kind of price lists self.markets holds: "short" or "long"
    pc,              \* position of run() in its code
    market_idx,      \* number of markets the for-loop has taken from self.markets
    first_market,    \* self.markets[0], as far as the code reads it after the loop: its start_ts
    market,          \* the loop variable: the market being processed
    ticks,           \* ticks = self._merge_ticks(up_prices, down_prices)
    tick_i,          \* index in ticks of the tick being processed
    tracker,         \* the PriceTracker: the number of record() calls it received, per side
    open_position,   \* open_position: NoPosition (None) or a position
    all_trades,      \* all_trades
    equity,          \* equity (times Scale)
    equity_curve,    \* equity_curve
    global_tick,     \* global_tick
    tick_log,        \* history: what the last processed tick did, in the order of the code
    opened,          \* history: number of positions opened so far
    abandoned,       \* history: number of positions dropped without a trade
    signalled,       \* history: detect_flash_crash() has reported an event in this run
    processed,       \* history: number of markets that were not skipped
    merge_up,        \* _merge_ticks called on its own: argument up_prices
    merge_down,      \*   argument down_prices
    merged,          \*   its return value
    merge_pc,        \*   "idle" | "call" | "returned"
    stats_trades,    \* the statistics of a BacktestResult read on their own: its trades
    stats_curve,     \*   its equity_curve
    stats,           \*   the values of its statistics properties
    stats_pc         \*   "idle" | "read" | "returned"

vars == << config, input_family, pc, market_idx, first_market, market, ticks, tick_i, tracker, open_position,
           all_trades, equity, equity_curve, global_tick, tick_log,
           opened, abandoned, signalled, processed, merge_up, merge_down, merged, merge_pc,
           stats_trades, stats_curve, stats, stats_pc >>

run_vars == << config, input_family, pc, market_idx, first_market, market, ticks, tick_i, tracker, open_position,
               all_trades, equity, equity_curve, global_tick, tick_log,
               opened, abandoned, signalled, processed >>

merge_vars == << merge_up, merge_down, merged, merge_pc >>

stats_vars == << stats_trades, stats_curve, stats, stats_pc >>

----------------------------------------------------------------------------
(* Bounds of the model *)

\* Markets a run processes at most.
MaxMarkets == 2
\* Largest price, in price steps; prices range over 0..MaxPrice (0: non-positive).
MaxPrice == 3
\* Timestamps of a short price list are start_ts .. start_ts + MaxT - 1.
MaxT == 2
\* Length of a short price list at most.
MaxLen == 2
\* Length of a long price list (long lists carry the run past the 10th tick).
MaxLong == 11
\* Distance between the start_ts of consecutive markets, and end_ts - start_ts.
MarketSpan == 12
\* The Signal Source reports crash events until MaxEvents positions have been opened.
MaxEvents == 2
\* Bounds of the results whose statistics are read: trades at most, largest pnl,
\* curve points at most, largest equity.
StatsLen == 3
StatsMaxPnl == 2
StatsCurveLen == 3
StatsMaxEquity == 2
\* Bounds of the inputs of _merge_ticks called on its own.
MergeLen == 2
MergeT == 3
MergeMaxPrice == 2

(* Program constants *)

\* size: float = 5.0
DefaultSize == 5
\* starting_equity: float = 100.0
DefaultStartingEquity == 100
\* if global_tick % 10 == 0
SampleEvery == 10

RECURSIVE Factorial(_)
Factorial(n) == IF n <= 1 THEN 1 ELSE n * Factorial(n - 1)

\* Money and share quantities are carried times Scale: every price divides it.
Scale == Factorial(MaxPrice)

Sides == {"up", "down"}

----------------------------------------------------------------------------
(* Python values *)

\* open_position = None
NoPosition == [side |-> "none", entry_price |-> 0, entry_time |-> 0, size_shares |-> 0]

\* dict.get(key, default)
Get(d, key, default) == IF key \in DOMAIN d THEN d[key] ELSE default

\* The market variable before the loop has bound it.
NoMarket == [slug |-> 0, start_ts |-> 0, end_ts |-> 0, up_prices |-> << >>, down_prices |-> << >>]

RECURSIVE SumPnl(_)
\* sum(t.pnl for t in trades)
SumPnl(trades) == IF trades = << >> THEN 0 ELSE SumPnl(SubSeq(trades, 1, Len(trades) - 1)) + trades[Len(trades)].pnl

----------------------------------------------------------------------------
(* BacktestEngine._merge_ticks *)

\* {p["t"]: p["p"] for p in prices}: a later element replaces an earlier one.
ByT(prices) ==
    [t \in {prices[i].t : i \in DOMAIN prices} |->
        LET last == CHOOSE i \in DOMAIN prices :
                        /\ prices[i].t = t
                        /\ \A j \in DOMAIN prices : prices[j].t = t => j <= i
        IN prices[last].p]

RECURSIVE Sorted(_)
\* sorted(S) for a set of numbers
Sorted(S) ==
    IF S = {} THEN << >>
    ELSE LET m == CHOOSE x \in S : \A y \in S : x <= y
         IN << m >> \o Sorted(S \ {m})

\* The tick built for timestamp t.
MakeTick(t, up_by_t, down_by_t) ==
    IF t \in DOMAIN up_by_t /\ t \in DOMAIN down_by_t
    THEN [t |-> t, up |-> up_by_t[t], down |-> down_by_t[t]]
    ELSE IF t \in DOMAIN up_by_t THEN [t |-> t, up |-> up_by_t[t]]
    ELSE IF t \in DOMAIN down_by_t THEN [t |-> t, down |-> down_by_t[t]]
    ELSE [t |-> t]

\* Mutant of AllTimes: the up timestamps followed by the remaining down timestamps,
\* without the sort over the union.
AllTimes_Concatenated(up_by_t, down_by_t) ==
    Sorted(DOMAIN up_by_t) \o Sorted((DOMAIN down_by_t) \ (DOMAIN up_by_t))

\* all_times = sorted(set(up_by_t.keys()) | set(down_by_t.keys()))
AllTimes(up_by_t, down_by_t) == Sorted(DOMAIN up_by_t \cup DOMAIN down_by_t)

merge_ticks(up_prices, down_prices) ==
    LET up_by_t == ByT(up_prices)
        down_by_t == ByT(down_prices)
        all_times == AllTimes(up_by_t, down_by_t)
    IN [i \in 1..Len(all_times) |-> MakeTick(all_times[i], up_by_t, down_by_t)]

----------------------------------------------------------------------------
(* The Signal Source (lib.price_tracker.PriceTracker) *)

\* PriceTracker(lookback_seconds, max_history): no observation yet.
NewTracker == [up |-> 0, down |-> 0]

\* tracker.record(side, price, timestamp=t)
TrackerRecord(tr, side, price, t) == [tr EXCEPT ![side] = @ + 1]

\* tracker.detect_flash_crash(): None or an event with a side.
DetectFlashCrash(tr) == {"none"} \cup Sides

----------------------------------------------------------------------------
(* The inputs *)

StartTs(i) == (i - 1) * MarketSpan
EndTs(i) == StartTs(i) + MarketSpan

Prices == 0..MaxPrice

\* The chronological price lists with the timestamps in T (a set), one per timestamp.
RECURSIVE ListsOver(_)
ListsOver(T) ==
    IF T = {} THEN {<< >>}
    ELSE LET m == CHOOSE x \in T : \A y \in T : y <= x
             rest == ListsOver(T \ {m})
         IN rest \cup {Append(l, [t |-> m, p |-> p]) : l \in {r \in rest : Len(r) < MaxLen}, p \in Prices}

ShortLists(start) == ListsOver(start .. start + MaxT - 1)

\* A long list: one price on its first tick, another on every later tick.
LongList(start, n, a, b) == [i \in 1..n |-> [t |-> start + i - 1, p |-> IF i = 1 THEN a ELSE b]]

LongLists(start) == {LongList(start, MaxLong, a, b) : a \in Prices, b \in Prices}

MarketOf(i, up, down) ==
    [slug |-> i, start_ts |-> StartTs(i), end_ts |-> EndTs(i), up_prices |-> up, down_prices |-> down]

\* The fields of a market that run() reads with market[...]
RequiredFields == {"slug", "start_ts", "end_ts"}

\* The dict without the keys
Without(d, keys) == [k \in (DOMAIN d) \ keys |-> d[k]]

\* What the code reads of self.markets[0] after the loop
FirstMarketOf(mk) == [k \in (DOMAIN mk) \cap {"start_ts"} |-> mk[k]]

\* The markets the i-th element of self.markets is drawn from: markets of short lists on
\* both sides, or markets of one long list of up prices (and markets without any price),
\* or markets of one short list of up prices of which one required field may be missing.
MarketChoices(i, family) ==
    IF family = "short"
    THEN {MarketOf(i, up, down) : up \in ShortLists(StartTs(i)), down \in ShortLists(StartTs(i))}
    ELSE IF family = "long"
    THEN {MarketOf(i, up, << >>) : up \in LongLists(StartTs(i))}
         \cup {MarketOf(i, << >>, << >>)}
    ELSE {Without(MarketOf(i, up, << >>), missing) :
              up \in ShortLists(StartTs(i)), missing \in {{}} \cup {{f} : f \in RequiredFields}}

ConfigOf(take_profit, stop_loss) ==
    [take_profit |-> take_profit, stop_loss |-> stop_loss, size |-> DefaultSize,
     starting_equity |-> DefaultStartingEquity * Scale]

\* The configurations of a run: one with positive deltas of two price steps each (the
\* stop-loss level of the lowest entry price then lies below zero), and one whose deltas
\* are zero, so that the two exit levels coincide.
Configs == {ConfigOf(1, 2), ConfigOf(0, 0)}

----------------------------------------------------------------------------
(* BacktestEngine.run: the pieces of a tick *)

\* Mutant of FreshTracker: one tracker serves all markets.
FreshTracker_Reused(old) == old

\* tracker = PriceTracker(...): a new tracker for each market that is processed
FreshTracker(old) == NewTracker

\* Mutant of IsEmptyMarket: no market is skipped.
IsEmptyMarket_Never(mk) == FALSE

\* if not up_prices and not down_prices: continue
IsEmptyMarket(mk) == mk.up_prices = << >> /\ mk.down_prices = << >>

\* current_prices: the sides of the tick that carry a price
CurrentPrices(tick) == [s \in (DOMAIN tick) \cap Sides |-> tick[s]]

\* What detect_flash_crash() saw of the tracker on a tick that did not call it.
NotSeen == [up |-> -1, down |-> -1]

\* Mutant of Recordable: every price the tick carries is recorded.
Recordable_AnyPrice(tick, side) == side \in DOMAIN tick

\* if up_p is not None and up_p > 0 (and the same for down): the side is recorded
Recordable(tick, side) == side \in DOMAIN tick /\ tick[side] > 0

\* the record() calls of one tick, in the order of the code: up, then down
RecordCalls(tick) ==
    (IF Recordable(tick, "up") THEN << [side |-> "up", p |-> tick.up, t |-> tick.t] >> ELSE << >>)
    \o (IF Recordable(tick, "down") THEN << [side |-> "down", p |-> tick.down, t |-> tick.t] >> ELSE << >>)

RECURSIVE RecordAll(_, _)
\* the tracker after the calls
RecordAll(tr, calls) ==
    IF calls = << >> THEN tr
    ELSE RecordAll(TrackerRecord(tr, calls[1].side, calls[1].p, calls[1].t), Tail(calls))

\* tp_price = entry_price + self.config.take_profit
TpPrice(entry_price) == entry_price + config.take_profit

\* sl_price = entry_price - self.config.stop_loss
SlPrice(entry_price) == entry_price - config.stop_loss

\* Mutant of ExitType: a price exactly at a level does not close the position.
ExitType_Strict(current_price, tp_price, sl_price) ==
    IF current_price > tp_price THEN "take_profit"
    ELSE IF current_price < sl_price THEN "stop_loss"
    ELSE "none"

\* Mutant of ExitType: stop-loss is tested first.
ExitType_StopLossFirst(current_price, tp_price, sl_price) ==
    IF current_price <= sl_price THEN "stop_loss"
    ELSE IF current_price >= tp_price THEN "take_profit"
    ELSE "none"

\* exit_type: take-profit is tested first, stop-loss in the elif
ExitType(current_price, tp_price, sl_price) ==
    IF current_price >= tp_price THEN "take_profit"
    ELSE IF current_price <= sl_price THEN "stop_loss"
    ELSE "none"

\* Mutant of ExitPrice: the fill is at the observed price.
ExitPrice_Observed(current_price, tp_price, sl_price) == current_price

\* exit_price: the level that was crossed, not the observed price
ExitPrice(current_price, tp_price, sl_price) ==
    IF current_price >= tp_price THEN tp_price
    ELSE IF current_price <= sl_price THEN sl_price
    ELSE current_price

\* pnl = (exit_price - entry_price) * shares
Pnl(exit_price, entry_price, shares) == (exit_price - entry_price) * shares

\* Mutant of Shares: the notional size is taken for the number of shares.
Shares_NoDivision(entry_price) == config.size * Scale

\* shares = self.config.size / entry_price
Shares(entry_price) == (config.size * Scale) \div entry_price

\* Trade(...)
\* Mutant of MakeTrade: the trade is stamped with the time of the entry.
MakeTrade_EntryStamp(slug, pos, exit_price, exit_time, exit_type) ==
    [market_slug |-> slug, side |-> pos.side, entry_price |-> pos.entry_price,
     exit_price |-> exit_price, entry_time |-> pos.entry_time, exit_time |-> pos.entry_time,
     size_usdc |-> config.size, size_shares |-> pos.size_shares,
     pnl |-> Pnl(exit_price, pos.entry_price, pos.size_shares), exit_type |-> exit_type]

MakeTrade(slug, pos, exit_price, exit_time, exit_type) ==
    [market_slug |-> slug, side |-> pos.side, entry_price |-> pos.entry_price,
     exit_price |-> exit_price, entry_time |-> pos.entry_time, exit_time |-> exit_time,
     size_usdc |-> config.size, size_shares |-> pos.size_shares,
     pnl |-> Pnl(exit_price, pos.entry_price, pos.size_shares), exit_type |-> exit_type]

\* Mutant of HasExitPrice: the exit is evaluated at whatever the price is.
HasExitPrice_Always(current_price) == TRUE

\* if current_price > 0: the exit of the open position is evaluated
HasExitPrice(current_price) == current_price > 0

\* Check exits for open position: what the exit check of a tick decides.
\*   "not_evaluated": no position is open; "skipped": the held side has no positive price
ExitOutcome(pos, current_prices) ==
    LET current_price == Get(current_prices, pos.side, 0)
    IN IF pos = NoPosition THEN "not_evaluated"
       ELSE IF ~HasExitPrice(current_price) THEN "skipped"
       ELSE ExitType(current_price, TpPrice(pos.entry_price), SlPrice(pos.entry_price))

\* the trade of a position closed on a tick
ExitTrade(slug, pos, current_prices, t) ==
    LET current_price == Get(current_prices, pos.side, 0)
        tp_price == TpPrice(pos.entry_price)
        sl_price == SlPrice(pos.entry_price)
    IN MakeTrade(slug, pos, ExitPrice(current_price, tp_price, sl_price), t,
                 ExitType(current_price, tp_price, sl_price))

\* Mutant of AppendTrade: the new trade is put at the head of the log.
AppendTrade_AtHead(log, trade) == << trade >> \o log

\* Mutant of AppendTrade: the trade is appended twice.
AppendTrade_Twice(log, trade) == Append(Append(log, trade), trade)

\* all_trades.append(trade)
AppendTrade(log, trade) == Append(log, trade)

\* Mutant of AddPnl: the proceeds of the sale are added, not the profit.
AddPnl_Proceeds(eq, trade) == eq + trade.exit_price * trade.size_shares

\* Mutant of AddPnl: the trade is logged and the equity left as it was.
AddPnl_Dropped(eq, trade) == eq

\* equity += pnl
AddPnl(eq, trade) == eq + trade.pnl

\* Mutant of PositionAfterExit: the closed position is not cleared before the entry check.
PositionAfterExit_Kept(pos, exits) == pos

\* open_position = None after the exit trade
PositionAfterExit(pos, exits) == IF exits THEN NoPosition ELSE pos

\* Mutant of CanEnter: the entry check runs whether or not a position is open.
CanEnter_Always(pos) == TRUE

\* if open_position is None: (the guard of the entry check)
CanEnter(pos) == pos = NoPosition

\* Mutant of EntryPrice: when the event's side has no positive price, the price of the
\* other side is taken.
EntryPrice_Fallback(current_prices, side) ==
    IF Get(current_prices, side, 0) > 0 THEN Get(current_prices, side, 0)
    ELSE Get(current_prices, IF side = "up" THEN "down" ELSE "up", 0)

\* entry_price = current_prices.get(side, 0)
EntryPrice(current_prices, side) == Get(current_prices, side, 0)

\* the position opened at a tick
NewPosition(side, entry_price, t) ==
    [side |-> side, entry_price |-> entry_price, entry_time |-> t, size_shares |-> Shares(entry_price)]

\* Mutant of SampleDue: the cadence counts the ticks of the current market.
SampleDue_PerMarket(gt) == tick_i % SampleEvery = 0

\* if global_tick % 10 == 0
SampleDue(gt) == gt % SampleEvery = 0

\* last_price: the p of the last element of the held side's list, 0.0 for an empty list
LastPrice(price_list) == IF price_list # << >> THEN price_list[Len(price_list)].p ELSE 0

\* price_list = up_prices if side == "up" else down_prices
PriceList(mk, side) == IF side = "up" THEN mk.up_prices ELSE mk.down_prices

\* Mutant of ForceCloses: the position is closed at whatever the last price is.
ForceCloses_AnyPrice(pos, last_price) == pos # NoPosition

\* Mutant of ForceCloses: the position open at the market's end is never closed.
ForceCloses_Never(pos, last_price) == FALSE

\* if last_price > 0: the position open at the market's end is closed
ForceCloses(pos, last_price) == pos # NoPosition /\ last_price > 0

\* Mutant of NeedsBaseline: the leading point is inserted whenever the first sample is
\* not located at the first market's start.
NeedsBaseline_ByTime(curve) == curve # << >> /\ curve[1].time # first_market.start_ts

\* Mutant of NeedsBaseline: no leading point is ever inserted.
NeedsBaseline_Never(curve) == FALSE

\* Mutant of NeedsBaseline: a leading point is inserted before every non-empty curve.
NeedsBaseline_Always(curve) == curve # << >>

\* if equity_curve and equity_curve[0]["equity"] != self.config.starting_equity
NeedsBaseline(curve) == curve # << >> /\ curve[1].equity # config.starting_equity

\* the point inserted at index 0
BaselinePoint == [time |-> first_market.start_ts, equity |-> config.starting_equity]

\* No tick processed yet in this market.
\* Mutant of MarketEndSample: the sample is located at the market's start.
MarketEndSample_AtStart(mk, eq) == [time |-> mk.start_ts, equity |-> eq]

\* {"time": market["end_ts"], "equity": equity}
MarketEndSample(mk, eq) == [time |-> mk.end_ts, equity |-> eq]

\* Mutant of InsertBaseline: the point is put at the end of the curve.
InsertBaseline_AtEnd(curve) == Append(curve, BaselinePoint)

\* equity_curve.insert(0, {...})
InsertBaseline(curve) == << BaselinePoint >> \o curve

NoTickLog ==
    [recorded |-> << >>, exit |-> "not_evaluated", detect |-> "not_called", seen |-> NotSeen,
     entered |-> FALSE]

----------------------------------------------------------------------------
(* BacktestEngine.run *)

RunStart ==
    /\ config \in Configs
    /\ pc = "loop"
    /\ market_idx = 0
    /\ first_market = << >>
    /\ market = NoMarket
    /\ ticks = << >>
    /\ tick_i = 0
    /\ tracker = NewTracker
    /\ open_position = NoPosition
    /\ all_trades = << >>
    /\ equity = config.starting_equity
    /\ equity_curve = << >>
    /\ global_tick = 0
    /\ tick_log = NoTickLog
    /\ opened = 0
    /\ abandoned = 0
    /\ signalled = FALSE
    /\ processed = 0

MergeIdle ==
    /\ merge_up = << >>
    /\ merge_down = << >>
    /\ merged = << >>
    /\ merge_pc = "idle"

NoStats == [total_pnl |-> 0]

StatsIdle ==
    /\ stats_trades = << >>
    /\ stats_curve = << >>
    /\ stats = NoStats
    /\ stats_pc = "idle"

\* run() on markets that have every field
RunInit ==
    /\ input_family \in {"short", "long"}
    /\ RunStart

Init == RunInit /\ MergeIdle /\ StatsIdle

\* for market_idx, market in enumerate(self.markets): the next market, skipped when it
\* has no price on either side, set up otherwise.
StartMarket ==
    /\ pc = "loop"
    /\ market_idx < MaxMarkets
    /\ \E mk \in MarketChoices(market_idx + 1, input_family) :
        /\ "slug" \in DOMAIN mk
        /\ market_idx' = market_idx + 1
        /\ first_market' = IF market_idx = 0 THEN FirstMarketOf(mk) ELSE first_market
        /\ IF IsEmptyMarket(mk)
           THEN /\ pc' = "loop"
                /\ UNCHANGED << market, ticks, tick_i, tracker, open_position, processed >>
           ELSE /\ market' = mk
                /\ tracker' = FreshTracker(tracker)
                /\ open_position' = NoPosition
                /\ ticks' = merge_ticks(mk.up_prices, mk.down_prices)
                /\ tick_i' = 1
                /\ processed' = processed + 1
                /\ pc' = IF merge_ticks(mk.up_prices, mk.down_prices) = << >> THEN "market_end" ELSE "tick"
    /\ UNCHANGED << config, input_family, all_trades, equity, equity_curve, global_tick, tick_log,
                    opened, abandoned, signalled >>
    /\ UNCHANGED merge_vars
    /\ UNCHANGED stats_vars

\* The for-loop over the markets ends.
EndLoop ==
    /\ pc = "loop"
    /\ pc' = "finalize"
    /\ UNCHANGED << config, input_family, market_idx, first_market, market, ticks, tick_i, tracker, open_position,
                    all_trades, equity, equity_curve, global_tick, tick_log,
                    opened, abandoned, signalled, processed >>
    /\ UNCHANGED merge_vars
    /\ UNCHANGED stats_vars

\* One iteration of "for tick_data in ticks": record the prices, check the exit of the
\* open position, check for a flash crash entry, record equity.
Tick ==
    /\ pc = "tick"
    /\ LET tick == ticks[tick_i]
           t == tick.t
           calls == RecordCalls(tick)
           tracker1 == RecordAll(tracker, calls)
           current_prices == CurrentPrices(tick)
           outcome == ExitOutcome(open_position, current_prices)
           exits == outcome \in {"take_profit", "stop_loss"}
           trade == ExitTrade(market.slug, open_position, current_prices, t)
           equity1 == IF exits THEN AddPnl(equity, trade) ELSE equity
           position1 == PositionAfterExit(open_position, exits)
       IN \E ev \in (IF CanEnter(position1) THEN DetectFlashCrash(tracker1) ELSE {"not_called"}) :
            LET entry_price == IF ev \in Sides THEN EntryPrice(current_prices, ev) ELSE 0
                enters == ev \in Sides /\ entry_price > 0
            IN /\ ev \in Sides => opened < MaxEvents
               /\ tracker' = tracker1
               /\ all_trades' = IF exits THEN AppendTrade(all_trades, trade) ELSE all_trades
               /\ equity' = equity1
               /\ open_position' = IF enters THEN NewPosition(ev, entry_price, t) ELSE position1
               /\ opened' = IF enters THEN opened + 1 ELSE opened
               /\ signalled' = (signalled \/ ev \in Sides)
               /\ global_tick' = global_tick + 1
               /\ equity_curve' = IF SampleDue(global_tick + 1)
                                  THEN Append(equity_curve, [time |-> t, equity |-> equity1])
                                  ELSE equity_curve
               /\ tick_log' = [recorded |-> calls, exit |-> outcome, detect |-> ev,
                               seen |-> IF ev = "not_called" THEN NotSeen ELSE tracker1,
                               entered |-> enters]
    /\ IF tick_i < Len(ticks)
       THEN tick_i' = tick_i + 1 /\ pc' = "tick"
       ELSE tick_i' = tick_i /\ pc' = "market_end"
    /\ UNCHANGED << config, input_family, market_idx, first_market, market, ticks, abandoned, processed >>
    /\ UNCHANGED merge_vars
    /\ UNCHANGED stats_vars

\* Market end: force-close any open position; record equity at market boundary
MarketEnd ==
    /\ pc = "market_end"
    /\ "end_ts" \in DOMAIN market
    /\ LET last_price == LastPrice(PriceList(market, open_position.side))
           trade == MakeTrade(market.slug, open_position, last_price, market.end_ts, "market_end")
           closes == ForceCloses(open_position, last_price)
           equity1 == IF closes THEN AddPnl(equity, trade) ELSE equity
       IN /\ all_trades' = IF closes THEN AppendTrade(all_trades, trade) ELSE all_trades
          /\ equity' = equity1
          /\ open_position' = IF closes THEN NoPosition ELSE open_position
          /\ abandoned' = IF open_position # NoPosition /\ ~closes THEN abandoned + 1 ELSE abandoned
          /\ equity_curve' = Append(equity_curve, MarketEndSample(market, equity1))
    /\ pc' = "loop"
    /\ market' = NoMarket
    /\ ticks' = << >>
    /\ tick_i' = 0
    /\ tick_log' = NoTickLog
    /\ UNCHANGED << config, input_family, market_idx, first_market, tracker, global_tick, opened, signalled,
                    processed >>
    /\ UNCHANGED merge_vars
    /\ UNCHANGED stats_vars

\* Ensure first equity point exists; return BacktestResult(...)
Finalize ==
    /\ pc = "finalize"
    /\ NeedsBaseline(equity_curve) => "start_ts" \in DOMAIN first_market
    /\ equity_curve' = IF NeedsBaseline(equity_curve)
                       THEN InsertBaseline(equity_curve)
                       ELSE equity_curve
    /\ pc' = "done"
    /\ UNCHANGED << config, input_family, market_idx, first_market, market, ticks, tick_i, tracker, open_position,
                    all_trades, equity, global_tick, tick_log, opened, abandoned, signalled, processed >>
    /\ UNCHANGED merge_vars
    /\ UNCHANGED stats_vars

Next ==
    \/ StartMarket
    \/ EndLoop
    \/ Tick
    \/ MarketEnd
    \/ Finalize

Spec == Init /\ [][Next]_vars

----------------------------------------------------------------------------
(* BacktestEngine.run on markets of which a required field may be missing *)

\* slug = market["slug"] raises KeyError
KeyErrorSlug ==
    /\ pc = "loop"
    /\ market_idx < MaxMarkets
    /\ \E mk \in MarketChoices(market_idx + 1, input_family) :
        /\ "slug" \notin DOMAIN mk
        /\ market_idx' = market_idx + 1
        /\ first_market' = IF market_idx = 0 THEN FirstMarketOf(mk) ELSE first_market
    /\ pc' = "error"
    /\ UNCHANGED << config, input_family, market, ticks, tick_i, tracker, open_position,
                    all_trades, equity, equity_curve, global_tick, tick_log, opened, abandoned, signalled, processed >>
    /\ UNCHANGED merge_vars
    /\ UNCHANGED stats_vars

\* market["end_ts"] raises KeyError, in Trade(...) of the force close or in the market
\* boundary sample, before anything is appended
KeyErrorEndTs ==
    /\ pc = "market_end"
    /\ "end_ts" \notin DOMAIN market
    /\ pc' = "error"
    /\ UNCHANGED << config, input_family, market_idx, first_market, market, ticks, tick_i, tracker,
                    open_position, all_trades, equity, equity_curve, global_tick, tick_log,
                    opened, abandoned, signalled, processed >>
    /\ UNCHANGED merge_vars
    /\ UNCHANGED stats_vars

\* self.markets[0]["start_ts"] raises KeyError when the leading point is to be inserted
KeyErrorStartTs ==
    /\ pc = "finalize"
    /\ NeedsBaseline(equity_curve)
    /\ "start_ts" \notin DOMAIN first_market
    /\ pc' = "error"
    /\ UNCHANGED << config, input_family, market_idx, first_market, market, ticks, tick_i, tracker,
                    open_position, all_trades, equity, equity_curve, global_tick, tick_log,
                    opened, abandoned, signalled, processed >>
    /\ UNCHANGED merge_vars
    /\ UNCHANGED stats_vars

InitMalformed ==
    /\ input_family = "malformed"
    /\ RunStart
    /\ MergeIdle
    /\ StatsIdle

NextMalformed ==
    \/ StartMarket
    \/ EndLoop
    \/ Tick
    \/ MarketEnd
    \/ Finalize
    \/ KeyErrorSlug
    \/ KeyErrorEndTs
    \/ KeyErrorStartTs

SpecMalformed == InitMalformed /\ [][NextMalformed]_vars

----------------------------------------------------------------------------
(* BacktestEngine._merge_ticks called on its own, on any two price lists *)

SeqsUpTo(S, n) == UNION {[1..k -> S] : k \in 0..n}

\* Price lists in any order, timestamps repeated or not.
MergeInputs == SeqsUpTo([t : 1..MergeT, p : 1..MergeMaxPrice], MergeLen)

MergeInit ==
    /\ RunInit
    /\ config = ConfigOf(1, 2)
    /\ input_family = "short"
    /\ merge_up \in MergeInputs
    /\ merge_down \in MergeInputs
    /\ merged = << >>
    /\ merge_pc = "call"
    /\ StatsIdle

MergeCall ==
    /\ merge_pc = "call"
    /\ merged' = merge_ticks(merge_up, merge_down)
    /\ merge_pc' = "returned"
    /\ UNCHANGED << merge_up, merge_down >>
    /\ UNCHANGED run_vars
    /\ UNCHANGED stats_vars

MergeNext == MergeCall

SpecMerge == MergeInit /\ [][MergeNext]_vars

----------------------------------------------------------------------------
(* BacktestResult: the statistics properties, read on a result with any trades *)

\* A float that is a quotient of two integers; 0.0 is Zero.
Zero == [num |-> 0, den |-> 1]

\* float("inf")
Infinity == [inf |-> TRUE]

\* The outcome of a property that raises ZeroDivisionError.
ZeroDivisionError == [raised |-> "ZeroDivisionError"]

\* a / b
Div(a, b) ==
    IF b = 0 THEN ZeroDivisionError
    ELSE IF a = 0 THEN Zero
    ELSE [num |-> a, den |-> b]

IsWin(t) == t.pnl > 0
IsLoss(t) == t.pnl <= 0
IsNegative(t) == t.pnl < 0

\* total_pnl
TotalPnl(trades) == SumPnl(trades)

\* winning_trades
WinningTrades(trades) == Len(SelectSeq(trades, IsWin))

\* Mutant of WinRate: the guard on total_trades is missing.
WinRate_Unguarded(trades) == Div(WinningTrades(trades) * 100, Len(trades))

\* win_rate
WinRate(trades) ==
    IF Len(trades) = 0 THEN Zero
    ELSE Div(WinningTrades(trades) * 100, Len(trades))

\* avg_win
AvgWin(trades) ==
    LET wins == SelectSeq(trades, IsWin)
    IN IF wins # << >> THEN Div(SumPnl(wins), Len(wins)) ELSE Zero

\* avg_loss
AvgLoss(trades) ==
    LET losses == SelectSeq(trades, IsLoss)
    IN IF losses # << >> THEN Div(SumPnl(losses), Len(losses)) ELSE Zero

\* profit_factor
ProfitFactor(trades) ==
    LET gross_profit == SumPnl(SelectSeq(trades, IsWin))
        sum_negative == SumPnl(SelectSeq(trades, IsNegative))
        gross_loss == IF sum_negative < 0 THEN -sum_negative ELSE sum_negative
    IN IF gross_loss = 0
       THEN (IF gross_profit > 0 THEN Infinity ELSE Zero)
       ELSE Div(gross_profit, gross_loss)

RECURSIVE SumSquares(_, _, _)
\* sum((n * p - total) ** 2 for p in pnls): the squared deviations from the average, times n * n
SumSquares(trades, n, total) ==
    IF trades = << >> THEN 0
    ELSE (n * trades[1].pnl - total) * (n * trades[1].pnl - total) + SumSquares(Tail(trades), n, total)

\* sharpe_ratio: avg / sqrt(variance), kept as the pair of the two quotients
SharpeRatio(trades) ==
    IF Len(trades) < 2 THEN Zero
    ELSE LET n == Len(trades)
             total == SumPnl(trades)
             avg == Div(total, n)
             variance == Div(SumSquares(trades, n, total), n * n * (n - 1))
         IN IF variance = Zero THEN Zero
            ELSE IF avg = Zero THEN Zero
            ELSE [avg |-> avg, variance |-> variance]

\* Mutant of PeakAfter: the peak stays the equity of the first point.
PeakAfter_Fixed(peak, eq) == peak

\* if eq > peak: peak = eq
PeakAfter(peak, eq) == IF eq > peak THEN eq ELSE peak

\* max(a, b) of two floats that are quotients with positive denominators
MaxOf(a, b) == IF b.num * a.den > a.num * b.den THEN b ELSE a

\* dd = (peak - eq) / peak * 100 if peak > 0 else 0.0
DrawdownPercent(peak, eq) == IF peak > 0 THEN Div((peak - eq) * 100, peak) ELSE Zero

\* dd = peak - eq
DrawdownDollars(peak, eq) == peak - eq

RECURSIVE DrawdownLoop(_, _, _, _)
\* the loop of max_drawdown over the points from position i on
DrawdownLoop(curve, i, peak, max_dd) ==
    IF i > Len(curve) THEN max_dd
    ELSE LET eq == curve[i].equity
             new_peak == PeakAfter(peak, eq)
         IN DrawdownLoop(curve, i + 1, new_peak, MaxOf(max_dd, DrawdownPercent(new_peak, eq)))

RECURSIVE DrawdownDollarsLoop(_, _, _, _)
\* the loop of max_drawdown_dollars over the points from position i on
DrawdownDollarsLoop(curve, i, peak, max_dd) ==
    IF i > Len(curve) THEN max_dd
    ELSE LET eq == curve[i].equity
             new_peak == PeakAfter(peak, eq)
             dd == DrawdownDollars(new_peak, eq)
         IN DrawdownDollarsLoop(curve, i + 1, new_peak, IF dd > max_dd THEN dd ELSE max_dd)

\* max_drawdown
MaxDrawdown(curve) ==
    IF curve = << >> THEN Zero
    ELSE DrawdownLoop(curve, 1, curve[1].equity, Zero)

\* max_drawdown_dollars
MaxDrawdownDollars(curve) ==
    IF curve = << >> THEN 0
    ELSE DrawdownDollarsLoop(curve, 1, curve[1].equity, 0)

\* The statistics of the result
StatsOf(trades, curve) ==
    [total_pnl |-> TotalPnl(trades),
     win_rate |-> WinRate(trades),
     avg_win |-> AvgWin(trades),
     avg_loss |-> AvgLoss(trades),
     profit_factor |-> ProfitFactor(trades),
     sharpe_ratio |-> SharpeRatio(trades),
     max_drawdown |-> MaxDrawdown(curve),
     max_drawdown_dollars |-> MaxDrawdownDollars(curve)]

\* A trade with the pnl
StatsTrade(pnl) ==
    [market_slug |-> 1, side |-> "up", entry_price |-> 1, exit_price |-> 1, entry_time |-> 0,
     exit_time |-> 1, size_shares |-> 1, pnl |-> pnl, exit_type |-> "market_end"]

\* The trade lists of the results
StatsInputs == SeqsUpTo({StatsTrade(pnl) : pnl \in -StatsMaxPnl..StatsMaxPnl}, StatsLen)

\* The equity curves of the results: point k is taken at time k
StatsCurves ==
    LET equities == SeqsUpTo(-1..StatsMaxEquity, StatsCurveLen)
    IN {[k \in DOMAIN e |-> [time |-> k, equity |-> e[k]]] : e \in equities}

\* A result whose statistics are read.  Every property reads the trades or the equity curve,
\* never both, so the results vary one of the two and leave the other empty.
StatsInit ==
    /\ input_family = "short"
    /\ RunStart
    /\ config = ConfigOf(1, 2)
    /\ MergeIdle
    /\ \/ stats_trades \in StatsInputs /\ stats_curve = << >>
       \/ stats_trades = << >> /\ stats_curve \in StatsCurves
    /\ stats = NoStats
    /\ stats_pc = "read"

StatsRead ==
    /\ stats_pc = "read"
    /\ stats' = StatsOf(stats_trades, stats_curve)
    /\ stats_pc' = "returned"
    /\ UNCHANGED << stats_trades, stats_curve >>
    /\ UNCHANGED run_vars
    /\ UNCHANGED merge_vars

StatsNext == StatsRead

SpecStats == StatsInit /\ [][StatsNext]_vars

----------------------------------------------------------------------------
(* Properties *)

\* Positions opened and neither closed by a trade nor dropped.
OpenCount == opened - Len(all_trades) - abandoned

\* A tick of the current market has been processed.
TickDone == tick_log # NoTickLog

\* The tick tick_log describes.
LastTick == IF pc = "market_end" THEN ticks[tick_i] ELSE ticks[tick_i - 1]

\* C1. Single-position invariant: at every point of run() at most one position is open
\* (every position opened so far is closed by a trade, dropped at a market's end, or is
\* the one held in open_position), and a tick opens a position only when no position is
\* open at its entry check: none was open when the tick began, or the open one was
\* closed by the tick's exit check; on a tick that leaves the position open the Signal
\* Source is not even queried.
C1_SinglePosition ==
    /\ OpenCount \in {0, 1}
    /\ OpenCount = 1 => open_position # NoPosition
    /\ tick_log.entered => tick_log.exit \in {"not_evaluated", "take_profit", "stop_loss"}
    /\ tick_log.exit \in {"skipped", "none"} => tick_log.detect = "not_called"

\* C1 witness: a tick closed the open position and opened a new one.
C1_Witness ==
    /\ tick_log.entered
    /\ tick_log.exit \in {"take_profit", "stop_loss"}
    /\ OpenCount = 1

\* C2. Equity reconciliation: when run() returns, the equity scalar equals
\* starting_equity plus the sum of the pnl of all trades of the report, and the last
\* equity-curve sample (there is one as soon as a market was processed) carries it.
C2_EquityReconciliation ==
    pc = "done" =>
        /\ equity = config.starting_equity + SumPnl(all_trades)
        /\ equity_curve # << >> => equity_curve[Len(equity_curve)].equity = equity

\* C2 witness: a finished run with two trades, a winning and a losing one.
C2_Witness ==
    /\ pc = "done"
    /\ Len(all_trades) = 2
    /\ all_trades[1].pnl > 0
    /\ all_trades[2].pnl < 0
    /\ equity # config.starting_equity

\* C3. Curve baseline: in every report whose equity curve is not empty, the first
\* point's equity equals config.starting_equity.
C3_CurveBaseline ==
    (pc = "done" /\ equity_curve # << >>) => equity_curve[1].equity = config.starting_equity

\* C3 witness: a report whose first natural sample was taken after a trade had moved
\* the equity, so that the leading point was inserted.
C3_Witness ==
    /\ pc = "done"
    /\ Len(equity_curve) >= 2
    /\ equity_curve[1] = BaselinePoint
    /\ equity_curve[2].equity # config.starting_equity

\* The price the tick carries for the side, 0 when it carries none.
PriceAt(tick, side) == Get(CurrentPrices(tick), side, 0)

\* The last price observed for the side in the current market: that of the latest tick
\* carrying the side (0 when no tick carries it).
LastObserved(side) ==
    LET with == {i \in DOMAIN ticks : side \in DOMAIN ticks[i]}
    IN IF with = {} THEN 0
       ELSE ticks[CHOOSE i \in with : \A j \in with : j <= i][side]

\* The last trade of the log.
LastTrade == all_trades[Len(all_trades)]

\* C4 as claimed: the first sample of every non-empty curve is the point
\* (markets[0].start_ts, starting_equity).
C4_FirstSampleAtStart ==
    (pc = "done" /\ equity_curve # << >>) =>
        equity_curve[1] = [time |-> StartTs(1), equity |-> config.starting_equity]

\* C4 as amended: the synthetic leading point (markets[0].start_ts, starting_equity) is
\* inserted exactly when the natural sampling is not empty and the equity of its first
\* sample differs from starting_equity; otherwise the curve is returned as sampled,
\* wherever its first sample is located.
C4_BaselineInsertion ==
    [][pc = "finalize" =>
        equity_curve' =
            IF equity_curve # << >> /\ equity_curve[1].equity # config.starting_equity
            THEN << [time |-> StartTs(1), equity |-> config.starting_equity] >> \o equity_curve
            ELSE equity_curve]_vars

\* C4 witness: a report with trades whose first sample is a natural one, located after
\* the first market's start.
C4_Witness ==
    /\ pc = "done"
    /\ all_trades # << >>
    /\ equity_curve # << >>
    /\ equity_curve[1].time # StartTs(1)

\* C5. Exit-price exactness: every take_profit trade has exit_price = entry_price +
\* take_profit and every stop_loss trade has exit_price = entry_price - stop_loss.
C5_ExitPriceExact ==
    \A i \in DOMAIN all_trades :
        /\ all_trades[i].exit_type = "take_profit" =>
               all_trades[i].exit_price = all_trades[i].entry_price + config.take_profit
        /\ all_trades[i].exit_type = "stop_loss" =>
               all_trades[i].exit_price = all_trades[i].entry_price - config.stop_loss

\* C5 witness: a tick closed the position by take-profit at a level below the price the
\* tick carried, and an earlier trade was closed by stop-loss.
C5_Witness ==
    /\ TickDone
    /\ tick_log.exit = "take_profit"
    /\ PriceAt(LastTick, LastTrade.side) > LastTrade.exit_price
    /\ LastTrade.pnl > 0
    /\ Len(all_trades) = 2
    /\ all_trades[1].exit_type = "stop_loss"

\* C6. Take-profit wins ties: a tick whose held-side price is at or above the
\* take-profit level and at or below the stop-loss level closes the position as
\* take_profit at the take-profit level; a stop_loss is recorded only on a tick whose
\* price is below the take-profit level; and a tick that evaluates the exit and leaves the
\* position open has a price strictly between the two levels.
C6_TakeProfitWinsTies ==
    /\ (TickDone /\ tick_log.exit \in {"take_profit", "stop_loss"}) =>
          LET price == PriceAt(LastTick, LastTrade.side)
              tp == LastTrade.entry_price + config.take_profit
              sl == LastTrade.entry_price - config.stop_loss
          IN /\ (price >= tp /\ price <= sl) =>
                    (LastTrade.exit_type = "take_profit" /\ LastTrade.exit_price = tp)
             /\ LastTrade.exit_type = "stop_loss" => (price < tp /\ price <= sl)
             /\ LastTrade.exit_type = "take_profit" => price >= tp
             /\ LastTrade.exit_type = tick_log.exit
    /\ (TickDone /\ tick_log.exit = "none") =>
          LET price == PriceAt(LastTick, open_position.side)
          IN /\ price < open_position.entry_price + config.take_profit
             /\ price > open_position.entry_price - config.stop_loss

\* C6 witness: a tick on which both exit conditions held, closed as take_profit.
C6_Witness ==
    /\ TickDone
    /\ tick_log.exit = "take_profit"
    /\ PriceAt(LastTick, LastTrade.side) >= LastTrade.entry_price + config.take_profit
    /\ PriceAt(LastTick, LastTrade.side) <= LastTrade.entry_price - config.stop_loss

\* The held side's price reaches neither exit level on any tick after the entry.
NeverReached(pos) ==
    \A i \in DOMAIN ticks :
        (ticks[i].t > pos.entry_time /\ pos.side \in DOMAIN ticks[i]) =>
            /\ ticks[i][pos.side] < pos.entry_price + config.take_profit
            /\ ticks[i][pos.side] > pos.entry_price - config.stop_loss

\* The step appends exactly one trade, the market_end trade of the position.
AppendsMarketEndTrade(pos) ==
    /\ Len(all_trades') = Len(all_trades) + 1
    /\ SubSeq(all_trades', 1, Len(all_trades)) = all_trades
    /\ LET tr == all_trades'[Len(all_trades')]
       IN /\ tr.exit_type = "market_end"
          /\ tr.exit_price = LastObserved(pos.side)
          /\ tr.exit_time = market.end_ts
          /\ tr.market_slug = market.slug
          /\ tr.side = pos.side
          /\ tr.entry_price = pos.entry_price
          /\ tr.entry_time = pos.entry_time
          /\ tr.size_shares = pos.size_shares

\* The trades of the current market closed by an exit level were closed on a tick after
\* their entry on which the held side's positive price had reached that level.
ExitsReachedLevel ==
    \A i \in DOMAIN all_trades :
        LET tr == all_trades[i]
        IN (pc \in {"tick", "market_end"} /\ tr.market_slug = market.slug
                /\ tr.exit_type \in {"take_profit", "stop_loss"}) =>
            \E k \in DOMAIN ticks :
                /\ ticks[k].t = tr.exit_time
                /\ tr.exit_time > tr.entry_time
                /\ PriceAt(ticks[k], tr.side) > 0
                /\ \/ PriceAt(ticks[k], tr.side) >= tr.entry_price + config.take_profit
                   \/ PriceAt(ticks[k], tr.side) <= tr.entry_price - config.stop_loss

\* C7 as claimed: a position opened in a market whose held-side price reaches neither
\* level on any later tick yields, at the market's end, exactly one trade, with
\* exit_type market_end, the last observed price of its side and the market's end_ts.
C7_MarketEndAlways ==
    [][(pc = "market_end" /\ open_position # NoPosition /\ NeverReached(open_position))
          => AppendsMarketEndTrade(open_position)]_vars

\* C7 as amended: a position opened in a market whose held-side price reaches neither
\* level on any later tick, and whose side's last observed price is positive, yields
\* exactly one trade, with exit_type market_end, exit_price the last observed price of
\* its side and exit_time the market's end_ts (it is not closed by an exit level before,
\* and the market's end closes every position left open whose last price is positive).
C7_MarketEndClose ==
    /\ []ExitsReachedLevel
    /\ [][(pc = "market_end" /\ open_position # NoPosition
               /\ LastObserved(open_position.side) > 0)
             => AppendsMarketEndTrade(open_position)]_vars

\* C7 witness: a market ended with the position opened on an earlier tick still open; its
\* side's price had moved since, without reaching a level, and the trade is in the log.
C7_Witness ==
    /\ pc = "loop"
    /\ all_trades # << >>
    /\ LastTrade.exit_type = "market_end"
    /\ LastTrade.exit_price # LastTrade.entry_price
    /\ LastTrade.exit_time = EndTs(LastTrade.market_slug)
    /\ equity_curve[Len(equity_curve)].equity = equity

\* C8. Abandoned position: when a market's ticks end with a position open and the last
\* element of the held side's price list has a non-positive price, no trade is appended,
\* the equity is unchanged, the market-end sample is recorded with that equity; and every
\* market that is processed starts with no open position.
C8_AbandonedPosition ==
    [][/\ (pc = "market_end" /\ open_position # NoPosition
              /\ LastPrice(PriceList(market, open_position.side)) <= 0) =>
             /\ all_trades' = all_trades
             /\ equity' = equity
             /\ equity_curve' = Append(equity_curve, [time |-> market.end_ts, equity |-> equity])
       /\ (pc = "loop" /\ pc' = "tick") => open_position' = NoPosition]_vars

\* C8 witness: the second market starts flat after the first one dropped its position.
C8_Witness ==
    /\ market_idx = 2
    /\ pc = "tick"
    /\ tick_i = 1
    /\ abandoned = 1
    /\ all_trades = << >>
    /\ open_position = NoPosition
    /\ equity_curve # << >>

\* C10. PnL identity: every trade has pnl = (exit_price - entry_price) * size_shares and
\* size_shares = config.size / entry_price, and the entry_price of a trade (and of the
\* open position) is the price its side carried on the tick of its entry_time.
C10_PnlIdentity ==
    /\ \A i \in DOMAIN all_trades :
          LET tr == all_trades[i]
          IN /\ tr.pnl = (tr.exit_price - tr.entry_price) * tr.size_shares
             /\ tr.entry_price > 0
             /\ tr.size_shares * tr.entry_price = config.size * Scale
             /\ (pc \in {"tick", "market_end"} /\ tr.market_slug = market.slug) =>
                    \E k \in DOMAIN ticks :
                        ticks[k].t = tr.entry_time /\ PriceAt(ticks[k], tr.side) = tr.entry_price
    /\ (pc \in {"tick", "market_end"} /\ open_position # NoPosition) =>
          /\ open_position.size_shares * open_position.entry_price = config.size * Scale
          /\ \E k \in DOMAIN ticks :
                /\ ticks[k].t = open_position.entry_time
                /\ PriceAt(ticks[k], open_position.side) = open_position.entry_price

\* C10 witness: a log with a trade of each exit type, none of them at zero pnl.
C10_Witness ==
    /\ Len(all_trades) = 2
    /\ all_trades[1].exit_type = "take_profit"
    /\ all_trades[2].exit_type = "market_end"
    /\ all_trades[1].pnl # 0
    /\ all_trades[2].pnl # 0
    /\ all_trades[1].entry_price # all_trades[2].entry_price

\* The price list gives each of its timestamps once.
UniqueTs(prices) ==
    \A i, j \in DOMAIN prices : prices[i].t = prices[j].t => i = j

\* The timestamps of a price list.
TsOf(prices) == {prices[i].t : i \in DOMAIN prices}

\* The tick carries the side exactly when the list has the tick's timestamp, with the
\* price the list gives for it.
CarriesSide(tick, side, prices) ==
    /\ side \in DOMAIN tick <=> tick.t \in TsOf(prices)
    /\ \A k \in DOMAIN prices : prices[k].t = tick.t => tick[side] = prices[k].p

\* C9. Merge correctness: for price lists that give each timestamp once, the merged
\* ticks have exactly the union of the two lists' timestamps, in strictly ascending
\* order; each tick carries a side's value exactly when that side has an observation at
\* its timestamp, and that value; no tick is without a side.
C9_MergeCorrect ==
    (merge_pc = "returned" /\ UniqueTs(merge_up) /\ UniqueTs(merge_down)) =>
        /\ {merged[i].t : i \in DOMAIN merged} = TsOf(merge_up) \cup TsOf(merge_down)
        /\ \A i, j \in DOMAIN merged : i < j => merged[i].t < merged[j].t
        /\ \A i \in DOMAIN merged :
              /\ DOMAIN merged[i] \subseteq {"t", "up", "down"}
              /\ CarriesSide(merged[i], "up", merge_up)
              /\ CarriesSide(merged[i], "down", merge_down)
              /\ DOMAIN merged[i] # {"t"}

\* C9 witness: two lists out of chronological order that share one timestamp, merged
\* into three ticks.
C9_Witness ==
    /\ merge_pc = "returned"
    /\ UniqueTs(merge_up)
    /\ UniqueTs(merge_down)
    /\ Len(merge_up) = 2
    /\ Len(merge_down) = 2
    /\ merge_up[1].t > merge_up[2].t
    /\ TsOf(merge_up) \cap TsOf(merge_down) # {}
    /\ Len(merged) = 3
    /\ \E i \in DOMAIN merged :
          /\ DOMAIN merged[i] = {"t", "up", "down"}
          /\ merged[i].up # merged[i].down

\* C11. Empty market skipped: the step of the market loop that takes a market without
\* prices on either side leaves the trade log, the equity, the equity curve and the
\* global tick counter unchanged and returns to the head of the loop; only markets with
\* a price on some side reach the tick loop and the market-end sample.
C11_EmptyMarketSkipped ==
    /\ [](pc \in {"tick", "market_end"} => (market.up_prices # << >> \/ market.down_prices # << >>))
    /\ [][(market_idx' = market_idx + 1 /\ pc' = "loop") =>
             /\ all_trades' = all_trades
             /\ equity' = equity
             /\ equity_curve' = equity_curve
             /\ global_tick' = global_tick]_vars

\* C11 witness: the first market was processed and left a trade, the second one was
\* taken and skipped: the counters and the logs are those of the first market's end.
C11_Witness ==
    /\ input_family = "long"
    /\ market_idx = 2
    /\ pc = "loop"
    /\ global_tick = MaxLong
    /\ all_trades # << >>
    /\ equity # config.starting_equity
    /\ equity_curve[Len(equity_curve)] = [time |-> EndTs(1), equity |-> equity]

\* C12. Trade-log ordering: along the trade log the markets follow the input order (the
\* slug of a market is its index in self.markets), and within one market exit_time never
\* decreases and nothing follows a market_end trade.
C12_TradeLogOrdering ==
    \A i, j \in DOMAIN all_trades :
        i < j =>
            /\ all_trades[i].market_slug <= all_trades[j].market_slug
            /\ all_trades[i].market_slug = all_trades[j].market_slug =>
                  /\ all_trades[i].exit_time <= all_trades[j].exit_time
                  /\ all_trades[i].exit_type # "market_end"

\* C12 witness: one market closed a position on a tick and the next one at its end.
C12_Witness ==
    /\ Len(all_trades) = 2
    /\ all_trades[1].market_slug = all_trades[2].market_slug
    /\ all_trades[1].exit_type \in {"take_profit", "stop_loss"}
    /\ all_trades[2].exit_type = "market_end"
    /\ all_trades[1].exit_time < all_trades[2].exit_time

\* C13 as claimed: when run() fails on a market that lacks a required field, no tick has
\* been processed and no trade or equity sample has been recorded; and run() does not
\* return a report when markets[0] lacks its start_ts.
C13_FailFast ==
    /\ pc = "error" =>
          /\ global_tick = 0
          /\ all_trades = << >>
          /\ equity_curve = << >>
    /\ (pc = "done" /\ market_idx > 0) => "start_ts" \in DOMAIN first_market

\* A run failed on its second market after the first one left a trade and its sample.
C13_LateFailure ==
    /\ pc = "error"
    /\ market_idx = 2
    /\ global_tick > 0
    /\ all_trades # << >>
    /\ equity_curve # << >>

\* A run returned its report although markets[0] has no start_ts.
C13_NoFailure ==
    /\ pc = "done"
    /\ market_idx > 0
    /\ "start_ts" \notin DOMAIN first_market
    /\ all_trades # << >>

\* C14. Zero-trade statistics: the statistics of a result whose trade log is empty are
\* win_rate 0, profit_factor 0, sharpe_ratio 0, avg_win 0, avg_loss 0 and total_pnl 0;
\* none of them raises ZeroDivisionError.
C14_ZeroTradeStatistics ==
    (stats_pc = "returned" /\ stats_trades = << >>) =>
        /\ stats.win_rate = Zero
        /\ stats.profit_factor = Zero
        /\ stats.sharpe_ratio = Zero
        /\ stats.avg_win = Zero
        /\ stats.avg_loss = Zero
        /\ stats.total_pnl = 0

\* C14 witness: the statistics of a result without trades have been read.
C14_Witness ==
    /\ stats_pc = "returned"
    /\ stats_trades = << >>
    /\ stats # NoStats
    /\ ZeroDivisionError \notin {stats.win_rate, stats.profit_factor, stats.sharpe_ratio,
                                 stats.avg_win, stats.avg_loss}

\* The number of ticks of the current market that have been processed.
TicksDone == IF pc = "tick" THEN tick_i - 1 ELSE tick_i

\* The number of the processed ticks of the current market that carry a positive price
\* for the side.
ObservedHere(side) ==
    Cardinality({k \in 1..TicksDone : side \in DOMAIN ticks[k] /\ ticks[k][side] > 0})

\* C15. Market isolation: the step that starts a processed market leaves it with no open
\* position, a Signal Source without observations and the ticks of that market alone;
\* while a market is processed its Signal Source holds exactly the observations of that
\* market's ticks processed so far, and a position that is open was entered on a tick of
\* that market.
C15_MarketIsolation ==
    /\ []((pc \in {"tick", "market_end"} /\ ticks # << >>) =>
             /\ tracker = [up |-> ObservedHere("up"), down |-> ObservedHere("down")]
             /\ open_position # NoPosition =>
                   \E k \in 1..TicksDone : ticks[k].t = open_position.entry_time)
    /\ [][(market_idx' = market_idx + 1 /\ pc' # "loop" /\ pc' # "error") =>
             /\ open_position' = NoPosition
             /\ tracker' = [up |-> 0, down |-> 0]
             /\ tick_i' = 1
             /\ \A k \in DOMAIN ticks' :
                    /\ ticks'[k].t >= market'.start_ts
                    /\ ticks'[k].t < market'.end_ts]_vars

\* C15 witness: the first market recorded up prices and left a trade on that side; the
\* second market has been processed to its end and its Signal Source holds the one up
\* price of its own two ticks.
C15_Witness ==
    /\ market_idx = 2
    /\ pc = "market_end"
    /\ all_trades # << >>
    /\ all_trades[1].market_slug = 1
    /\ all_trades[1].side = "up"
    /\ Len(ticks) = 2
    /\ tracker = [up |-> 1, down |-> 0]

\* C16. One trade per closed position: a step either leaves the trade log as it is or
\* appends one trade to it, which carries the side, entry price, entry time and share
\* size of the position that was open and is open no longer; no two trades of the log
\* come from the same position (same market and entry time), and the trades never
\* outnumber the positions that were opened and not dropped.
C16_OneTradePerClosedPosition ==
    /\ [](/\ Len(all_trades) + abandoned <= opened
          /\ \A i, j \in DOMAIN all_trades :
                (i # j /\ all_trades[i].market_slug = all_trades[j].market_slug) =>
                    all_trades[i].entry_time # all_trades[j].entry_time)
    /\ [][\/ all_trades' = all_trades
          \/ /\ Len(all_trades') = Len(all_trades) + 1
             /\ SubSeq(all_trades', 1, Len(all_trades)) = all_trades
             /\ open_position # NoPosition
             /\ open_position' # open_position
             /\ LET tr == all_trades'[Len(all_trades')]
                IN /\ tr.side = open_position.side
                   /\ tr.entry_price = open_position.entry_price
                   /\ tr.entry_time = open_position.entry_time
                   /\ tr.size_shares = open_position.size_shares
                   /\ tr.exit_type \in {"take_profit", "stop_loss", "market_end"}]_vars

\* C16 witness: a finished run that opened two positions on different sides of one
\* market and closed both, the first by stop-loss and the second at the market's end.
C16_Witness ==
    /\ pc = "done"
    /\ opened = 2
    /\ abandoned = 0
    /\ Len(all_trades) = 2
    /\ all_trades[1].market_slug = all_trades[2].market_slug
    /\ all_trades[1].side # all_trades[2].side
    /\ all_trades[1].exit_type = "stop_loss"
    /\ all_trades[2].exit_type = "market_end"

\* C17. Equity-curve ordering: for markets in chronological, non-overlapping order whose
\* price timestamps lie within their window (the markets of the model), the timestamps
\* never decrease along the equity curve, the market-end samples and the synthetic
\* leading point included.
C17_CurveOrdering ==
    \A i, j \in DOMAIN equity_curve :
        i < j => equity_curve[i].time <= equity_curve[j].time

\* C17 witness: the report of two long markets: the leading point, then for each market
\* its tenth-tick sample and its market-end sample.
C17_Witness ==
    /\ pc = "done"
    /\ input_family = "long"
    /\ Len(equity_curve) = 5
    /\ equity_curve[1].time = StartTs(1)
    /\ equity_curve[1].equity # equity_curve[2].equity
    /\ equity_curve[3].time = EndTs(1)
    /\ equity_curve[5].time = EndTs(2)

\* C18. No-signal run: as long as the Signal Source has reported no crash event, the
\* trade log is empty, the equity and every sample of the curve equal starting_equity,
\* and the end of such a run inserts no leading point.
C18_NoSignalRun ==
    /\ [](~signalled =>
             /\ all_trades = << >>
             /\ opened = 0
             /\ equity = config.starting_equity
             /\ \A i \in DOMAIN equity_curve : equity_curve[i].equity = config.starting_equity)
    /\ [][(~signalled /\ pc = "finalize") => equity_curve' = equity_curve]_vars

\* C18 witness: the report of a run over two long markets, on whose twenty-two ticks the
\* Signal Source was asked and reported nothing: four natural samples, none at the first
\* market's start.
C18_Witness ==
    /\ pc = "done"
    /\ ~signalled
    /\ global_tick = 2 * MaxLong
    /\ tracker.up > 0
    /\ Len(equity_curve) = 4
    /\ equity_curve[1].time > StartTs(1)

\* C19. Same-tick re-entry: a tick that closes the open position by take-profit or
\* stop-loss queries the Signal Source, and when the event it reports names a side with a
\* positive price on this tick, the tick leaves a new position open on that side, entered
\* at that price and at the exit_time of the trade just closed.
C19_SameTickReentry ==
    (TickDone /\ tick_log.exit \in {"take_profit", "stop_loss"}) =>
        /\ tick_log.detect # "not_called"
        /\ LastTrade.exit_time = LastTick.t
        /\ (tick_log.detect \in Sides /\ PriceAt(LastTick, tick_log.detect) > 0) =>
              /\ tick_log.entered
              /\ open_position # NoPosition
              /\ open_position.side = tick_log.detect
              /\ open_position.entry_price = PriceAt(LastTick, tick_log.detect)
              /\ open_position.entry_time = LastTrade.exit_time

\* C19 witness: a tick closed the position on one side and opened a position on the
\* other side.
C19_Witness ==
    /\ TickDone
    /\ tick_log.exit \in {"take_profit", "stop_loss"}
    /\ tick_log.detect \in Sides
    /\ open_position # NoPosition
    /\ open_position.side # LastTrade.side
    /\ open_position.entry_time = LastTrade.exit_time

\* The record() calls of the tick for the side.
RecordedFor(side) == SelectSeq(tick_log.recorded, LAMBDA c : c.side = side)

\* C20. Per-tick order: a tick records each side whose price is present and positive
\* exactly once, with that price and the tick's timestamp, and records no other side;
\* detect_flash_crash is called, once, exactly on the ticks whose position is None after
\* the exit evaluation (none was open, or it was closed on this tick), never on a tick
\* that leaves the position it evaluated open; and the call sees the Signal Source with
\* the tick's own observations already recorded.
C20_PerTickOrder ==
    TickDone =>
        /\ \A side \in Sides :
              IF side \in DOMAIN LastTick /\ LastTick[side] > 0
              THEN RecordedFor(side) = << [side |-> side, p |-> LastTick[side], t |-> LastTick.t] >>
              ELSE RecordedFor(side) = << >>
        /\ Len(tick_log.recorded) = Len(RecordedFor("up")) + Len(RecordedFor("down"))
        /\ tick_log.detect \in {"not_called", "none", "up", "down"}
        /\ tick_log.exit \in {"skipped", "none"} <=> tick_log.detect = "not_called"
        /\ tick_log.exit \in {"skipped", "none"} => (open_position # NoPosition /\ ~tick_log.entered)
        /\ tick_log.detect # "not_called" =>
              tick_log.seen = [up |-> ObservedHere("up"), down |-> ObservedHere("down")]

\* C20 witness: a tick that carries a positive price on one side and a non-positive one
\* on the other recorded the first only, closed the position and queried the Signal
\* Source, which saw that observation.
C20_Witness ==
    /\ TickDone
    /\ DOMAIN LastTick = {"t", "up", "down"}
    /\ LastTick.down = 0
    /\ Len(tick_log.recorded) = 1
    /\ tick_log.exit \in {"take_profit", "stop_loss"}
    /\ tick_log.detect = "none"
    /\ tick_log.seen.up = 2

\* C21. Exit skipped without a price: a tick on which a position is open and the held
\* side has no price or a non-positive one leaves the position as it is, appends no
\* trade, leaves the equity unchanged and does not query the Signal Source, so that no
\* position is opened on it.
C21_ExitSkipped ==
    [][(pc = "tick" /\ open_position # NoPosition
            /\ (open_position.side \notin DOMAIN ticks[tick_i]
                   \/ ticks[tick_i][open_position.side] <= 0)) =>
          /\ open_position' = open_position
          /\ all_trades' = all_trades
          /\ equity' = equity
          /\ opened' = opened
          /\ tick_log'.exit = "skipped"
          /\ tick_log'.detect = "not_called"
          /\ ~tick_log'.entered]_vars

\* C21 witness: a tick that carries a positive price for the other side only was
\* processed with the position open, and the position is still open.
C21_Witness ==
    /\ TickDone
    /\ tick_log.exit = "skipped"
    /\ open_position # NoPosition
    /\ open_position.side \notin DOMAIN LastTick
    /\ Len(tick_log.recorded) = 1
    /\ open_position.entry_time < LastTick.t

\* C22. Entry condition: a step opens a position only as a tick on which no position is
\* open after the exit evaluation, the Signal Source reports an event, and the tick
\* carries a positive price for the side of the event; the position has that side, that
\* price as entry_price, the tick's timestamp as entry_time and config.size / entry_price
\* shares.  A tick whose event names a side without a positive price leaves no position
\* open, and no later step opens one without an event of its own.
C22_EntryCondition ==
    [][/\ (opened' # opened \/ (open_position' # open_position /\ open_position' # NoPosition)) =>
             /\ pc = "tick"
             /\ opened' = opened + 1
             /\ tick_log'.entered
             /\ tick_log'.exit \in {"not_evaluated", "take_profit", "stop_loss"}
             /\ tick_log'.detect \in Sides
             /\ LET tick == ticks[tick_i]
                    side == tick_log'.detect
                IN /\ side \in DOMAIN tick
                   /\ tick[side] > 0
                   /\ open_position'.side = side
                   /\ open_position'.entry_price = tick[side]
                   /\ open_position'.entry_time = tick.t
                   /\ open_position'.size_shares * tick[side] = config.size * Scale
       /\ (pc = "tick" /\ tick_log'.detect \in Sides
              /\ (tick_log'.detect \notin DOMAIN ticks[tick_i]
                     \/ ticks[tick_i][tick_log'.detect] <= 0)) =>
             /\ open_position' = NoPosition
             /\ opened' = opened
             /\ ~tick_log'.entered]_vars

\* C22 witness: a tick that carries a zero up price and a positive down price found no
\* position open and opened one on the down side, at that price and at its timestamp.
C22_Witness ==
    /\ TickDone
    /\ tick_log.exit = "not_evaluated"
    /\ tick_log.detect = "down"
    /\ tick_log.entered
    /\ DOMAIN LastTick = {"t", "up", "down"}
    /\ LastTick.up = 0
    /\ open_position.side = "down"
    /\ open_position.entry_price = LastTick.down
    /\ open_position.entry_time = LastTick.t
    /\ open_position.entry_price > 1

\* A tick whose event named the side with a zero price, the other side having a positive
\* one, left no position open.
C22_EventWithoutPrice ==
    /\ TickDone
    /\ tick_log.detect = "up"
    /\ ~tick_log.entered
    /\ open_position = NoPosition
    /\ DOMAIN LastTick = {"t", "up", "down"}
    /\ LastTick.up = 0
    /\ LastTick.down > 0

\* The number of samples of the curve located at the time.
SamplesAt(time) == Cardinality({k \in DOMAIN equity_curve : equity_curve[k].time = time})

\* C23. Market-boundary sample: a market that is processed is left only through its
\* market-end step, which appends exactly one sample, (market.end_ts, equity), the
\* equity being the one after the force close and so holding the pnl of a market_end
\* trade; no other step puts a sample at a market's end_ts, so the curve holds one such
\* sample for each market processed so far, whatever cadence samples it holds.
C23_MarketBoundarySample ==
    /\ [](\A i \in 1..MaxMarkets :
             /\ SamplesAt(EndTs(i)) <= 1
             /\ SamplesAt(EndTs(i)) = 1 =>
                   (i < market_idx \/ (i = market_idx /\ pc \in {"loop", "finalize", "done"})))
    /\ [][/\ pc = "market_end" =>
               /\ equity_curve' = Append(equity_curve, [time |-> market.end_ts, equity |-> equity'])
               /\ all_trades' # all_trades =>
                     equity' = equity + all_trades'[Len(all_trades')].pnl
               /\ pc' = "loop"
          /\ (pc \in {"tick", "market_end"} /\ pc' \notin {"tick", "market_end"}) =>
               /\ pc = "market_end"
               /\ Cardinality({k \in DOMAIN equity_curve' :
                                  equity_curve'[k].time = market.end_ts}) = 1]_vars

\* C23 witness: a long market took its tenth-tick sample with the position open and then
\* its market-end sample, which holds the loss of the market_end trade.
C23_Witness ==
    /\ pc = "loop"
    /\ input_family = "long"
    /\ market_idx = 1
    /\ Len(equity_curve) = 2
    /\ equity_curve[1].equity = config.starting_equity
    /\ equity_curve[2].time = EndTs(1)
    /\ equity_curve[2].equity < equity_curve[1].equity
    /\ LastTrade.exit_type = "market_end"

\* The markets whose market-end step has been taken.
MarketsEnded == IF pc \in {"tick", "market_end"} THEN processed - 1 ELSE processed

\* C24. Global sampling cadence: every tick step advances global_tick by one and no
\* other step changes it; a tick step appends a sample, (the tick's timestamp, equity),
\* exactly when the advanced counter is a multiple of 10; so after N ticks the curve holds
\* N div 10 cadence samples and one market-end sample for each market ended, and the
\* report holds these and at most one leading point more.
C24_GlobalCadence ==
    /\ [](/\ pc # "done" => Len(equity_curve) = (global_tick \div SampleEvery) + MarketsEnded
          /\ pc = "done" =>
                Len(equity_curve) - ((global_tick \div SampleEvery) + processed) \in {0, 1})
    /\ [][/\ pc = "tick" =>
               /\ global_tick' = global_tick + 1
               /\ equity_curve' =
                     IF (global_tick + 1) % SampleEvery = 0
                     THEN Append(equity_curve, [time |-> ticks[tick_i].t, equity |-> equity'])
                     ELSE equity_curve
          /\ pc # "tick" => global_tick' = global_tick]_vars

\* C24 witness: the report of two long markets after an event: twenty-two ticks, the
\* twentieth of which is the ninth of the second market, two cadence samples and two
\* market-end samples.
C24_Witness ==
    /\ pc = "done"
    /\ signalled
    /\ processed = 2
    /\ global_tick = 2 * MaxLong
    /\ Len(equity_curve) = 4
    /\ equity_curve[1].time = StartTs(1) + SampleEvery - 1
    /\ equity_curve[3].time = StartTs(2) + 2 * SampleEvery - MaxLong - 1

\* The pnl of the trades closed up to and including the time.
PnlUpTo(time) == SumPnl(SelectSeq(all_trades, LAMBDA tr : tr.exit_time <= time))

\* C25. Equity moves only on trade close: in every state the equity is starting_equity
\* plus the pnl of the trades in the log, and every sample of the curve is starting_equity
\* plus the pnl of the trades closed up to and including its time; a step that appends
\* no trade (a tick that opens or holds a position, a market end that drops one) leaves
\* the equity unchanged, and a step that appends one adds its pnl.
C25_EquityOnTradeClose ==
    /\ [](/\ equity = config.starting_equity + SumPnl(all_trades)
          /\ \A k \in DOMAIN equity_curve :
                equity_curve[k].equity = config.starting_equity + PnlUpTo(equity_curve[k].time))
    /\ [][/\ all_trades' = all_trades => equity' = equity
          /\ all_trades' # all_trades =>
                equity' = equity + all_trades'[Len(all_trades')].pnl]_vars

\* C25 witness: a report of a run that closed one position at a profit or a loss and
\* dropped another one, with samples before and after the trade.
C25_Witness ==
    /\ pc = "done"
    /\ opened = 2
    /\ abandoned = 1
    /\ Len(all_trades) = 1
    /\ equity # config.starting_equity
    /\ \E k \in DOMAIN equity_curve : equity_curve[k].equity = config.starting_equity
    /\ \E k \in DOMAIN equity_curve : equity_curve[k].equity = equity

\* The running peak at position j of the curve: the largest equity at positions up to j.
RunningPeak(curve, j) ==
    CHOOSE p \in {curve[i].equity : i \in 1..j} : \A i \in 1..j : curve[i].equity <= p

\* The drop at position j of the curve: the running peak minus the equity there.
DropAt(curve, j) == RunningPeak(curve, j) - curve[j].equity

\* The float r is the quotient of the drop at position j by the running peak there, times 100.
IsDropPercent(r, curve, j) ==
    r.num * RunningPeak(curve, j) = DropAt(curve, j) * 100 * r.den

\* The quotient of the drop at position j by the running peak there, times 100, is at most
\* the float r (the running peak is not zero, the denominator of r is positive).
DropPercentAtMost(r, curve, j) ==
    IF RunningPeak(curve, j) > 0
    THEN DropAt(curve, j) * 100 * r.den <= r.num * RunningPeak(curve, j)
    ELSE DropAt(curve, j) * 100 * r.den >= r.num * RunningPeak(curve, j)

\* C26. The maximum drawdown in dollars of an equity curve is the largest drop over its
\* positions, the drop at a position being the largest equity up to the position minus the
\* equity there; the maximum drawdown in percent is the largest quotient of the drop by that
\* running peak, times 100, over the positions whose running peak is not zero (where the
\* quotient exists).  Both are 0 for the empty curve, and neither is ever negative.
C26_MaxDrawdown ==
    stats_pc = "returned" =>
        LET curve == stats_curve
            dollars == stats.max_drawdown_dollars
            percent == stats.max_drawdown
            defined == {j \in DOMAIN curve : RunningPeak(curve, j) # 0}
        IN /\ dollars >= 0
           /\ percent.den > 0 /\ percent.num >= 0
           /\ curve = << >> => dollars = 0 /\ percent = Zero
           /\ \A j \in DOMAIN curve : DropAt(curve, j) <= dollars
           /\ curve # << >> => \E j \in DOMAIN curve : DropAt(curve, j) = dollars
           /\ \A j \in defined : DropPercentAtMost(percent, curve, j)
           /\ defined # {} => \E j \in defined : IsDropPercent(percent, curve, j)
           /\ defined = {} => percent = Zero

\* A curve that rises to a new peak and falls below its first equity has been read: the
\* drawdown is taken from the later peak, 2 dollars and 100 percent of it.
C26_Witness ==
    /\ stats_pc = "returned"
    /\ Len(stats_curve) = 3
    /\ stats_curve[1].equity = 1 /\ stats_curve[2].equity = 2 /\ stats_curve[3].equity = 0
    /\ stats.max_drawdown_dollars = 2
    /\ stats.max_drawdown = [num |-> 200, den |-> 2]

\* C27. A position is never exit-evaluated on the tick it was opened: every trade closed by
\* take-profit or stop-loss has exit_time strictly greater than entry_time, both inside the
\* window of its market; and a tick that opens a position stamps it with the tick's time,
\* leaves it open, and appends at most the trade of the position held before, entered on an
\* earlier tick.
C27_NoExitOnEntryTick ==
    /\ [](\A i \in DOMAIN all_trades :
             all_trades[i].exit_type \in {"take_profit", "stop_loss"} =>
                /\ all_trades[i].exit_time > all_trades[i].entry_time
                /\ all_trades[i].entry_time >= StartTs(all_trades[i].market_slug)
                /\ all_trades[i].exit_time <= EndTs(all_trades[i].market_slug))
    /\ [][(pc = "tick" /\ open_position' # NoPosition /\ open_position' # open_position) =>
             /\ open_position'.entry_time = ticks[tick_i].t
             /\ Len(all_trades') <= Len(all_trades) + 1
             /\ \A i \in DOMAIN all_trades' :
                   (i > Len(all_trades)) =>
                      /\ all_trades'[i].exit_time = ticks[tick_i].t
                      /\ all_trades'[i].entry_time < ticks[tick_i].t]_vars

\* C27 witness: a tick closed the position by an exit level and opened the next one: the
\* trade's exit_time is the entry_time of the position now open, later than its own entry.
C27_Witness ==
    /\ open_position # NoPosition
    /\ all_trades # << >>
    /\ LastTrade.exit_type \in {"take_profit", "stop_loss"}
    /\ LastTrade.market_slug = market.slug
    /\ LastTrade.exit_time = open_position.entry_time
    /\ LastTrade.entry_time < LastTrade.exit_time

\* C28. With positive take_profit and stop_loss deltas (and the chronological price lists of
\* the runs), every trade closed at its market's end has its exit price strictly inside the
\* exit band of its entry: entry_price - stop_loss < exit_price < entry_price + take_profit.
C28_MarketEndInsideBand ==
    (config.take_profit > 0 /\ config.stop_loss > 0) =>
        \A i \in DOMAIN all_trades :
            all_trades[i].exit_type = "market_end" =>
                /\ all_trades[i].entry_price - config.stop_loss < all_trades[i].exit_price
                /\ all_trades[i].exit_price < all_trades[i].entry_price + config.take_profit

\* C28 witness: with positive deltas a run has finished whose position was closed at the
\* market's end after its side's price had fallen below the entry price, without reaching
\* the stop-loss level.
C28_Witness ==
    /\ pc = "done"
    /\ config.take_profit > 0 /\ config.stop_loss > 0
    /\ \E i \in DOMAIN all_trades :
          /\ all_trades[i].exit_type = "market_end"
          /\ all_trades[i].exit_price < all_trades[i].entry_price
          /\ all_trades[i].exit_price > all_trades[i].entry_price - config.stop_loss

====
